---------------------------- MODULE Spec2Model ----------------------------
(***************************************************************************)
(* A model of ContactFilter (src/contact_filter.py): the classifier of     *)
(* pitch events, its running counters, the summaries and the plate-        *)
(* appearance counts.                                                      *)
(*                                                                         *)
(* Python values are tagged records, so that the duck-typed lookups of the *)
(* code (dict.get with a default, truthiness, membership in a table) are   *)
(* computed as Python computes them.  A pitch is a function from the keys  *)
(* it holds to such values; a missing key is a key outside its DOMAIN.     *)
(* Dictionaries that are shared by reference (self.stats and the copies    *)
(* get_stats hands out) live in a heap of objects.                         *)
(* Percentages and velocities rounded to one decimal are kept in tenths.   *)
(***************************************************************************)
EXTENDS Integers, Sequences, FiniteSets, TLC

(***************************************************************************)
(* Python values                                                           *)
(***************************************************************************)
PyInt(n) == [t |-> "int", n |-> n]
PyStr(s) == [t |-> "str", s |-> s]
PyNone == [t |-> "none"]

\* dict.get(key, default)
Get(d, key, default) == IF key \in DOMAIN d THEN d[key] ELSE default

\* bool(v) for the values a pitch field holds
Truthy(v) ==
    CASE v.t = "none" -> FALSE
      [] v.t = "int" -> v.n # 0
      [] v.t = "str" -> v.s # ""

(***************************************************************************)
(* The lookup tables                                                       *)
(***************************************************************************)
CONTACT_CALLS ==
    [FoulBall |-> "foul",
     FoulBallFieldable |-> "foul",
     FoulBallNotFieldable |-> "foul",
     InPlay |-> "in_play"]

NON_CONTACT_CALLS ==
    [StrikeSwinging |-> "whiff",
     StrikeCalled |-> "called_strike",
     BallCalled |-> "ball",
     HitByPitch |-> "hit_by_pitch",
     Undefined |-> "undefined"]

WEAK_CONTACT_THRESHOLD == 70
HARD_CONTACT_THRESHOLD == 95

\* key in table, for a table keyed by strings
InTable(v, table) == v.t = "str" /\ v.s \in DOMAIN table

is_contact(pitch) == InTable(Get(pitch, "pitch_call", PyNone), CONTACT_CALLS)

is_non_contact(pitch) == InTable(Get(pitch, "pitch_call", PyNone), NON_CONTACT_CALLS)

\* get_event_category with a default call for a pitch that has none
get_event_category_DefaultCall(pitch) ==
    LET pitch_call == Get(pitch, "pitch_call", PyStr("Undefined")) IN
    IF InTable(pitch_call, CONTACT_CALLS) THEN CONTACT_CALLS[pitch_call.s]
    ELSE IF InTable(pitch_call, NON_CONTACT_CALLS) THEN NON_CONTACT_CALLS[pitch_call.s]
    ELSE "unknown"

get_event_category(pitch) ==
    LET pitch_call == Get(pitch, "pitch_call", PyNone) IN
    IF InTable(pitch_call, CONTACT_CALLS) THEN CONTACT_CALLS[pitch_call.s]
    ELSE IF InTable(pitch_call, NON_CONTACT_CALLS) THEN NON_CONTACT_CALLS[pitch_call.s]
    ELSE "unknown"

(***************************************************************************)
(* The running counters                                                    *)
(***************************************************************************)
StatKeys ==
    {"total_pitches_processed",
     "contact_events_found", "fouls_found", "in_play_found",
     "non_contact_events_found", "whiffs_found", "called_strikes_found",
     "balls_found", "hit_by_pitch_found", "undefined_found",
     "unknown_found"}

\* the dictionary reset_stats builds
ZeroStats == [k \in StatKeys |-> 0]

\* d[key] += n
Incr(d, key, n) == [d EXCEPT ![key] = @ + n]

\* LeafCounter that takes 'undefined' for 'unknown'
LeafCounter_UndefinedAsUnknown(category) ==
    CASE category = "foul" -> "fouls_found"
      [] category = "in_play" -> "in_play_found"
      [] category = "whiff" -> "whiffs_found"
      [] category = "called_strike" -> "called_strikes_found"
      [] category = "ball" -> "balls_found"
      [] category = "hit_by_pitch" -> "hit_by_pitch_found"
      [] category = "undefined" -> "unknown_found"

\* the counter a leaf category raises
LeafCounter(category) ==
    CASE category = "foul" -> "fouls_found"
      [] category = "in_play" -> "in_play_found"
      [] category = "whiff" -> "whiffs_found"
      [] category = "called_strike" -> "called_strikes_found"
      [] category = "ball" -> "balls_found"
      [] category = "hit_by_pitch" -> "hit_by_pitch_found"
      [] category = "undefined" -> "undefined_found"

EmptyResult ==
    [contact |-> [foul |-> <<>>, in_play |-> <<>>, all |-> <<>>],
     non_contact |-> [whiff |-> <<>>, called_strike |-> <<>>, ball |-> <<>>,
                      hit_by_pitch |-> <<>>, undefined |-> <<>>, all |-> <<>>],
     unknown |-> <<>>]

\* CategorizeStep without its last branch: an unknown pitch is counted, not kept
CategorizeStep_DropsUnknown(acc, pitch) ==
    LET category == get_event_category(pitch) IN
    IF category \in {"foul", "in_play"} THEN
        [result |-> [acc.result EXCEPT
                        !.contact[category] = Append(@, pitch),
                        !.contact.all = Append(@, pitch)],
         stats |-> Incr(Incr(acc.stats, "contact_events_found", 1),
                        LeafCounter(category), 1)]
    ELSE IF category \in {"whiff", "called_strike", "ball", "hit_by_pitch", "undefined"} THEN
        [result |-> [acc.result EXCEPT
                        !.non_contact[category] = Append(@, pitch),
                        !.non_contact.all = Append(@, pitch)],
         stats |-> Incr(Incr(acc.stats, "non_contact_events_found", 1),
                        LeafCounter(category), 1)]
    ELSE
        [result |-> acc.result,
         stats |-> Incr(acc.stats, "unknown_found", 1)]

\* one iteration of the loop of categorize_pitches: acc = [result, stats]
CategorizeStep(acc, pitch) ==
    LET category == get_event_category(pitch) IN
    IF category \in {"foul", "in_play"} THEN
        [result |-> [acc.result EXCEPT
                        !.contact[category] = Append(@, pitch),
                        !.contact.all = Append(@, pitch)],
         stats |-> Incr(Incr(acc.stats, "contact_events_found", 1),
                        LeafCounter(category), 1)]
    ELSE IF category \in {"whiff", "called_strike", "ball", "hit_by_pitch", "undefined"} THEN
        [result |-> [acc.result EXCEPT
                        !.non_contact[category] = Append(@, pitch),
                        !.non_contact.all = Append(@, pitch)],
         stats |-> Incr(Incr(acc.stats, "non_contact_events_found", 1),
                        LeafCounter(category), 1)]
    ELSE
        [result |-> [acc.result EXCEPT !.unknown = Append(@, pitch)],
         stats |-> Incr(acc.stats, "unknown_found", 1)]

RECURSIVE CategorizeLoop(_, _)
\* for pitch in pitches
CategorizeLoop(acc, pitches) ==
    IF pitches = <<>> THEN acc
    ELSE CategorizeLoop(CategorizeStep(acc, Head(pitches)), Tail(pitches))

\* categorize_pitches that raises total_pitches_processed once per call
categorize_pitches_CountsCalls(st, pitches) ==
    CategorizeLoop([result |-> EmptyResult,
                    stats |-> Incr(st, "total_pitches_processed", 1)],
                   pitches)

\* categorize_pitches on the counters st: the returned buckets and the counters after
categorize_pitches(st, pitches) ==
    CategorizeLoop([result |-> EmptyResult,
                    stats |-> Incr(st, "total_pitches_processed", Len(pitches))],
                   pitches)


(***************************************************************************)
(* Arithmetic of the summaries                                             *)
(***************************************************************************)
\* the integer nearest to num / den (den > 0), ties to the even one: round()
RoundHalfEven(num, den) ==
    LET q == num \div den
        r == num % den
    IN  IF 2 * r < den THEN q
        ELSE IF 2 * r > den THEN q + 1
        ELSE IF q % 2 = 0 THEN q ELSE q + 1

\* Rate scaled by 1000 for 100
Rate_TimesThousand(count, total) ==
    IF total > 0 THEN RoundHalfEven(count * 10000, total) ELSE 0

\* round(count / total * 100, 1) if total > 0 else 0, in tenths of a percent
Rate(count, total) == IF total > 0 THEN RoundHalfEven(count * 1000, total) ELSE 0

RECURSIVE SumSeq(_)
SumSeq(s) == IF s = <<>> THEN 0 ELSE Head(s) + SumSeq(Tail(s))

RECURSIVE MaxSeq(_)
MaxSeq(s) ==
    IF Len(s) = 1 THEN s[1]
    ELSE LET m == MaxSeq(Tail(s)) IN IF s[1] >= m THEN s[1] ELSE m

RECURSIVE Insert(_, _)
Insert(x, sorted) ==
    IF sorted = <<>> THEN <<x>>
    ELSE IF x <= Head(sorted) THEN <<x>> \o sorted
    ELSE <<Head(sorted)>> \o Insert(x, Tail(sorted))

RECURSIVE Sorted(_)
Sorted(s) == IF s = <<>> THEN <<>> ELSE Insert(Head(s), Sorted(Tail(s)))

\* round(pd.Series(values).quantile(quarters / 4), 1), in tenths: linear
\* interpolation between the order statistics around (n - 1) * quarters / 4
Quantile(values, quarters) ==
    LET srt == Sorted(values)
        pos == (Len(srt) - 1) * quarters
        lo == pos \div 4 + 1
        hi == IF pos % 4 = 0 THEN lo ELSE lo + 1
    IN  RoundHalfEven(10 * (4 * srt[lo] + (srt[hi] - srt[lo]) * (pos % 4)), 4)

\* [p.get('exit_speed', 0) for p in in_play_pitches if p.get('exit_speed')]
RECURSIVE ExitSpeeds(_)
ExitSpeeds(in_play_pitches) ==
    IF in_play_pitches = <<>> THEN <<>>
    ELSE LET p == Head(in_play_pitches)
             rest == ExitSpeeds(Tail(in_play_pitches))
         IN  IF Truthy(Get(p, "exit_speed", PyNone))
             THEN <<Get(p, "exit_speed", PyInt(0)).n>> \o rest
             ELSE rest

\* IsHard with > for >=
IsHard_Strict(s) == s > HARD_CONTACT_THRESHOLD

IsWeak(s) == s < WEAK_CONTACT_THRESHOLD
IsHard(s) == s >= HARD_CONTACT_THRESHOLD

NoContactSummary ==
    [total_contacts |-> 0, fouls |-> 0, in_play |-> 0,
     weak_contact |-> 0, hard_contact |-> 0,
     avg_exit_velo |-> 0, max_exit_velo |-> 0,
     contact_rate |-> 0, foul_rate |-> 0, in_play_rate |-> 0]

\* get_contact_summary on the counters st: the summary and the counters after.
\* Rates, avg_exit_velo and the percentiles are in tenths; max_exit_velo is in mph.
get_contact_summary(st, pitches) ==
    LET c == categorize_pitches(st, pitches)
        categorized == c.result
        contact_pitches == categorized.contact.all
        in_play_pitches == categorized.contact.in_play
        exit_speeds == ExitSpeeds(in_play_pitches)
        weak_contact == SelectSeq(exit_speeds, IsWeak)
        hard_contact == SelectSeq(exit_speeds, IsHard)
        total_pitches == Len(pitches)
    IN  IF contact_pitches = <<>> THEN [ret |-> NoContactSummary, stats |-> c.stats]
        ELSE
        [ret |->
            [total_contacts |-> Len(contact_pitches),
             fouls |-> Len(categorized.contact.foul),
             in_play |-> Len(in_play_pitches),
             weak_contact |-> Len(weak_contact),
             hard_contact |-> Len(hard_contact),
             contact_rate |-> Rate(Len(contact_pitches), total_pitches),
             foul_rate |-> Rate(Len(categorized.contact.foul), total_pitches),
             in_play_rate |-> Rate(Len(in_play_pitches), total_pitches),
             avg_exit_velo |-> IF exit_speeds # <<>>
                               THEN RoundHalfEven(SumSeq(exit_speeds) * 10, Len(exit_speeds))
                               ELSE 0,
             max_exit_velo |-> IF exit_speeds # <<>> THEN MaxSeq(exit_speeds) ELSE 0,
             exit_velo_percentiles |->
                 IF exit_speeds # <<>>
                 THEN ("25th" :> Quantile(exit_speeds, 1))
                      @@ ("50th" :> Quantile(exit_speeds, 2))
                      @@ ("75th" :> Quantile(exit_speeds, 3))
                 ELSE <<>>],
         stats |-> c.stats]

\* get_non_contact_summary on the counters st; rates in tenths of a percent
get_non_contact_summary(st, pitches) ==
    LET c == categorize_pitches(st, pitches)
        categorized == c.result
        non_contact == categorized.non_contact
        total_pitches == Len(pitches)
        swings == Len(non_contact.whiff) + Len(categorized.contact.all)
    IN  [ret |->
            [total_non_contacts |-> Len(non_contact.all),
             whiffs |-> Len(non_contact.whiff),
             called_strikes |-> Len(non_contact.called_strike),
             balls |-> Len(non_contact.ball),
             hit_by_pitch |-> Len(non_contact.hit_by_pitch),
             undefined |-> Len(non_contact.undefined),
             whiff_rate |-> Rate(Len(non_contact.whiff), total_pitches),
             called_strike_rate |-> Rate(Len(non_contact.called_strike), total_pitches),
             ball_rate |-> Rate(Len(non_contact.ball), total_pitches),
             hit_by_pitch_rate |-> Rate(Len(non_contact.hit_by_pitch), total_pitches),
             swings |-> swings,
             swing_rate |-> Rate(swings, total_pitches),
             whiff_per_swing |-> Rate(Len(non_contact.whiff), swings)],
         stats |-> c.stats]

\* get_complete_summary that builds both summaries from the same counters
get_complete_summary_OnePass(st, pitches, now) ==
    LET c == get_contact_summary(st, pitches)
        n == get_non_contact_summary(st, pitches)
    IN  [ret |-> [contact |-> c.ret,
                  non_contact |-> n.ret,
                  totals |-> [pitches_analyzed |-> Len(pitches), timestamp |-> now]],
         stats |-> n.stats]

\* get_complete_summary: the contact summary, then the non-contact summary on
\* the counters the first left; now is what datetime.now().isoformat() gives
get_complete_summary(st, pitches, now) ==
    LET c == get_contact_summary(st, pitches)
        n == get_non_contact_summary(c.stats, pitches)
    IN  [ret |-> [contact |-> c.ret,
                  non_contact |-> n.ret,
                  totals |-> [pitches_analyzed |-> Len(pitches), timestamp |-> now]],
         stats |-> n.stats]

(***************************************************************************)
(* Plate appearances                                                       *)
(***************************************************************************)
Digit(d) == SubSeq(<<"0", "1", "2", "3", "4", "5", "6", "7", "8", "9">>, d + 1, d + 1)

RECURSIVE NatStr(_)
NatStr(n) == IF n < 10 THEN Digit(n) ELSE NatStr(n \div 10) \o Digit(n % 10)

\* format(v) inside an f-string, as a sequence of characters, for an int or None
Format(v) ==
    CASE v.t = "int" -> IF v.n < 0 THEN <<"-">> \o NatStr(-v.n) ELSE NatStr(v.n)
      [] v.t = "none" -> <<"N", "o", "n", "e">>

\* PaKey without the separator
PaKey_NoSeparator(pitch) ==
    LET inning == Get(pitch, "inning", PyInt(0))
        pa_num == Get(pitch, "pa_of_inning", PyInt(0))
    IN  Format(inning) \o Format(pa_num)

\* f"{inning}_{pa_num}"
PaKey(pitch) ==
    LET inning == Get(pitch, "inning", PyInt(0))
        pa_num == Get(pitch, "pa_of_inning", PyInt(0))
    IN  Format(inning) \o <<"_">> \o Format(pa_num)

\* pa_map as the loop builds it: the keys in insertion order, each with its pitches
RECURSIVE PaMapLoop(_, _)
PaMapLoop(pa_map, pitches) ==
    IF pitches = <<>> THEN pa_map
    ELSE LET pitch == Head(pitches)
             pa_key == PaKey(pitch)
             at == {i \in DOMAIN pa_map : pa_map[i].key = pa_key}
             next == IF at = {}
                     THEN Append(pa_map, [key |-> pa_key, pitches |-> <<pitch>>])
                     ELSE [i \in DOMAIN pa_map |->
                              IF i \in at
                              THEN [pa_map[i] EXCEPT !.pitches = Append(@, pitch)]
                              ELSE pa_map[i]]
         IN  PaMapLoop(next, Tail(pitches))

PaMap(pitches) == PaMapLoop(<<>>, pitches)

\* any(self.is_contact(p) for p in pa_pitches)
AnyContact(pa_pitches) == \E i \in DOMAIN pa_pitches : is_contact(pa_pitches[i])

count_contact_plate_appearances(pitches) ==
    LET pa_map == PaMap(pitches)
    IN  Cardinality({i \in DOMAIN pa_map : AnyContact(pa_map[i].pitches)})

count_non_contact_plate_appearances(pitches) ==
    LET pa_map == PaMap(pitches)
    IN  Cardinality({i \in DOMAIN pa_map : ~AnyContact(pa_map[i].pitches)})

(***************************************************************************)
(* Bounds and inputs                                                       *)
(***************************************************************************)
\* longest pitch list passed to an operation of a long-lived instance
MaxLen == 1
\* the calls of a behaviour stop once total_pitches_processed would pass this
MaxProcessed == 3
\* snapshots of get_stats a caller holds on to at a time
MaxSnaps == 1
\* longest pitch list given to a single call on a fresh instance
MaxCallLen == 3
\* longest pitch list given to the plate-appearance counts
MaxPaLen == 3

Range(s) == {s[i] : i \in DOMAIN s}

\* the sequences over S of length at most n
SeqsUpTo(S, n) == UNION {[1..k -> S] : k \in 0..n}

Call(c) == [pitch_call |-> PyStr(c)]

\* pitches of every category, and pitches with an unlisted, a null and no pitch_call
StatsPitches ==
    {Call("FoulBall"), [pitch_call |-> PyStr("InPlay"), exit_speed |-> PyInt(60)],
     Call("StrikeSwinging"), Call("StrikeCalled"), Call("BallCalled"),
     Call("HitByPitch"), Call("Undefined"),
     Call("Bunt"), [pitch_call |-> PyNone], [inning |-> PyInt(1)]}

\* every listed call, an unlisted, a null and a missing one, and exit speeds
\* absent, null, zero and around the thresholds
CallPitches ==
    {Call(c) : c \in (DOMAIN CONTACT_CALLS) \cup (DOMAIN NON_CONTACT_CALLS) \cup {"Bunt"}}
    \cup {[pitch_call |-> PyNone], [exit_speed |-> PyInt(100)]}
    \cup {[pitch_call |-> PyStr("InPlay"), exit_speed |-> e] :
             e \in {PyInt(0), PyInt(69), PyInt(70), PyInt(95), PyNone}}
    \cup {[pitch_call |-> PyStr("FoulBall"), exit_speed |-> PyInt(100)]}

\* where a pitch falls: inning and pa_of_inning, either of them possibly missing
PaPlaces ==
    {<<>>,
     [inning |-> PyInt(0)],
     [pa_of_inning |-> PyInt(2)],
     [inning |-> PyInt(1), pa_of_inning |-> PyInt(2)],
     [inning |-> PyInt(1), pa_of_inning |-> PyInt(12)],
     [inning |-> PyInt(11), pa_of_inning |-> PyInt(2)]}

\* pitches of plate appearances, with a contact call or a non-contact call, and
\* one with an unlisted call
PaPitches ==
    {w @@ Call(c) : w \in PaPlaces, c \in {"InPlay", "BallCalled"}}
    \cup {[inning |-> PyInt(1), pa_of_inning |-> PyInt(2), pitch_call |-> PyStr("Bunt")]}

\* the pitch of the callers that hold snapshots
SnapPitches == {Call("InPlay")}

\* what datetime.now().isoformat() may give
TimeStamps == {"t1", "t2"}

StatsLists == SeqsUpTo(StatsPitches, MaxLen)
CallLists == SeqsUpTo(CallPitches, MaxCallLen)
PaLists == SeqsUpTo(PaPitches, MaxPaLen)
\* the callers that hold snapshots pass one pitch at a time
SnapLists == {<<p>> : p \in SnapPitches}

(***************************************************************************)
(* The instance and its callers                                            *)
(***************************************************************************)
VARIABLES
    heap,       \* the dictionaries alive, by object identity
    stats,      \* self.stats: the identity of the counters' dictionary
    snaps,      \* the snapshots a caller holds on to (identities)
    pitches,    \* the argument of the last call
    ret,        \* what the last call returned
    lastOp,     \* the last operation
    processed   \* lengths passed to categorize_pitches since the last reset

vars == <<heap, stats, snaps, pitches, ret, lastOp, processed>>

Ids == 1..(MaxSnaps + 3)

NoRet == [kind |-> "none"]

\* the dictionaries of h that a reference in roots reaches; the others are freed
Reach(h, roots) == [i \in (DOMAIN h) \cap roots |-> h[i]]

\* the dictionaries alive with self.stats = st, the caller's snapshots sn and the
\* returned value r
Live(h, st, sn, r) ==
    Reach(h, {st} \cup Range(sn) \cup (IF r.kind = "ref" THEN {r.id} ELSE {}))

\* the identity of a dictionary created now: one no live dictionary has (an
\* identity is only ever compared with those of live dictionaries)
NewId(h) == CHOOSE i \in Ids \ DOMAIN h : \A j \in Ids \ DOMAIN h : i <= j

Counters == heap[stats]

\* __init__
Init ==
    /\ heap = (1 :> ZeroStats)
    /\ stats = 1
    /\ snaps = <<>>
    /\ pitches = <<>>
    /\ ret = NoRet
    /\ lastOp = "__init__"
    /\ processed = 0

\* the end of a call that leaves the counters st and returns r
Returns(st, r) ==
    /\ heap' = Live([heap EXCEPT ![stats] = st], stats, snaps, r)
    /\ ret' = r
    /\ UNCHANGED <<stats, snaps>>

CategorizePitches(P) ==
    LET c == categorize_pitches(Counters, P)
    IN  /\ pitches' = P
        /\ lastOp' = "categorize_pitches"
        /\ processed' = processed + Len(P)
        /\ Returns(c.stats, [kind |-> "buckets", v |-> c.result])

GetContactSummary(P) ==
    LET c == get_contact_summary(Counters, P)
    IN  /\ pitches' = P
        /\ lastOp' = "get_contact_summary"
        /\ processed' = processed + Len(P)
        /\ Returns(c.stats, [kind |-> "summary", v |-> c.ret])

GetNonContactSummary(P) ==
    LET c == get_non_contact_summary(Counters, P)
    IN  /\ pitches' = P
        /\ lastOp' = "get_non_contact_summary"
        /\ processed' = processed + Len(P)
        /\ Returns(c.stats, [kind |-> "summary", v |-> c.ret])

GetCompleteSummary(P) ==
    \E now \in TimeStamps :
        LET c == get_complete_summary(Counters, P, now)
        IN  /\ pitches' = P
            /\ lastOp' = "get_complete_summary"
            /\ processed' = processed + 2 * Len(P)
            /\ Returns(c.stats, [kind |-> "summary", v |-> c.ret])

\* print_summary returns None; printed is the summary whose values it prints
PrintSummary(P) ==
    \E now \in TimeStamps :
        LET c == get_complete_summary(Counters, P, now)
        IN  /\ pitches' = P
            /\ lastOp' = "print_summary"
            /\ processed' = processed + 2 * Len(P)
            /\ Returns(c.stats, [kind |-> "none", printed |-> c.ret])

CountContactPlateAppearances(P) ==
    /\ pitches' = P
    /\ lastOp' = "count_contact_plate_appearances"
    /\ Returns(Counters, [kind |-> "int", v |-> count_contact_plate_appearances(P)])
    /\ UNCHANGED processed

CountNonContactPlateAppearances(P) ==
    /\ pitches' = P
    /\ lastOp' = "count_non_contact_plate_appearances"
    /\ Returns(Counters, [kind |-> "int", v |-> count_non_contact_plate_appearances(P)])
    /\ UNCHANGED processed

\* reset_stats that leaves unknown_found as it was
reset_stats_KeepsUnknown(h, st) ==
    [heap |-> (NewId(h) :> [ZeroStats EXCEPT !["unknown_found"] = h[st]["unknown_found"]]) @@ h,
     stats |-> NewId(h)]

\* self.stats = {...}: a new dictionary; the old one lives on only if referenced
reset_stats(h, st) == [heap |-> (NewId(h) :> ZeroStats) @@ h, stats |-> NewId(h)]

ResetStats ==
    LET r == reset_stats(Reach(heap, {stats} \cup Range(snaps)), stats)
    IN  /\ heap' = Live(r.heap, r.stats, snaps, NoRet)
        /\ stats' = r.stats
        /\ ret' = NoRet
        /\ lastOp' = "reset_stats"
        /\ processed' = 0
        /\ UNCHANGED <<snaps, pitches>>

\* get_stats that returns self.stats itself
get_stats_Alias(h, st) == [heap |-> h, id |-> st]

\* return self.stats.copy(): a new dictionary with the entries of self.stats
get_stats(h, st) == [heap |-> (NewId(h) :> h[st]) @@ h, id |-> NewId(h)]

GetStats ==
    LET r == get_stats(Reach(heap, {stats} \cup Range(snaps)), stats)
    IN  /\ ret' = [kind |-> "ref", id |-> r.id]
        /\ heap' = Live(r.heap, stats, snaps, ret')
        /\ lastOp' = "get_stats"
        /\ UNCHANGED <<stats, snaps, pitches, processed>>

----------------------------------------------------------------------------
\* The caller keeps the dictionary get_stats returned
KeepSnapshot ==
    /\ ret.kind = "ref"
    /\ ret.id \notin Range(snaps)
    /\ Len(snaps) < MaxSnaps
    /\ snaps' = Append(snaps, ret.id)
    /\ UNCHANGED <<heap, stats, pitches, ret, lastOp, processed>>

\* The caller sets or adds an entry of a snapshot it holds: snap[key] = value
SetSnapshotEntry(i, key, value) ==
    /\ i \in DOMAIN snaps
    /\ heap' = Live([heap EXCEPT ![snaps[i]] = (key :> value) @@ @], stats, snaps, NoRet)
    /\ ret' = NoRet
    /\ lastOp' = "caller_set"
    /\ UNCHANGED <<stats, snaps, pitches, processed>>

\* The caller deletes an entry of a snapshot it holds: del snap[key]
DelSnapshotEntry(i, key) ==
    /\ i \in DOMAIN snaps
    /\ key \in DOMAIN heap[snaps[i]]
    /\ heap' = Live([heap EXCEPT ![snaps[i]] =
                        [k \in (DOMAIN @) \ {key} |-> @[k]]], stats, snaps, NoRet)
    /\ ret' = NoRet
    /\ lastOp' = "caller_del"
    /\ UNCHANGED <<stats, snaps, pitches, processed>>

\* The caller lets go of a snapshot
DropSnapshot(i) ==
    /\ i \in DOMAIN snaps
    /\ snaps' = SubSeq(snaps, 1, i - 1) \o SubSeq(snaps, i + 1, Len(snaps))
    /\ heap' = Live(heap, stats, snaps', ret)
    /\ UNCHANGED <<stats, pitches, ret, lastOp, processed>>

----------------------------------------------------------------------------
\* the counters stay within the bound after so many passes over P
Room(P, passes) ==
    Counters["total_pitches_processed"] + passes * Len(P) <= MaxProcessed

\* A long-lived instance: every operation that reads or writes the counters
Next ==
    \/ \E P \in StatsLists : Room(P, 1) /\ CategorizePitches(P)
    \/ \E P \in StatsLists : Room(P, 1) /\ GetContactSummary(P)
    \/ \E P \in StatsLists : Room(P, 1) /\ GetNonContactSummary(P)
    \/ \E P \in StatsLists : Room(P, 2) /\ GetCompleteSummary(P)
    \/ \E P \in StatsLists : Room(P, 2) /\ PrintSummary(P)
    \/ ResetStats
    \/ GetStats

Spec == Init /\ [][Next]_vars

\* the instance has just been constructed
Fresh == lastOp = "__init__"

\* A fresh instance and one call on a pitch list
InitCall ==
    /\ Init!1 /\ Init!2 /\ Init!3 /\ Init!5 /\ Init!6 /\ Init!7
    /\ pitches \in CallLists

NextCall ==
    \/ Fresh /\ CategorizePitches(pitches)
    \/ Fresh /\ GetContactSummary(pitches)
    \/ Fresh /\ GetNonContactSummary(pitches)
    \/ Fresh /\ GetCompleteSummary(pitches)
    \/ Fresh /\ PrintSummary(pitches)

SpecCall == InitCall /\ [][NextCall]_vars

\* A fresh instance and one plate-appearance count on a pitch list
InitPa ==
    /\ Init!1 /\ Init!2 /\ Init!3 /\ Init!5 /\ Init!6 /\ Init!7
    /\ pitches \in PaLists

NextPa ==
    \/ Fresh /\ CountContactPlateAppearances(pitches)
    \/ Fresh /\ CountNonContactPlateAppearances(pitches)

SpecPa == InitPa /\ [][NextPa]_vars

\* An instance and a caller that keeps and changes the snapshots it got
NextSnap ==
    \/ \E P \in SnapLists : Room(P, 1) /\ CategorizePitches(P)
    \/ ResetStats
    \/ GetStats
    \/ KeepSnapshot
    \/ \E i \in 1..MaxSnaps, key \in {"total_pitches_processed", "extra"} :
          SetSnapshotEntry(i, key, 99)
    \/ \E i \in 1..MaxSnaps : DelSnapshotEntry(i, "total_pitches_processed")
    \/ \E i \in 1..MaxSnaps : DropSnapshot(i)

SpecSnap == Init /\ [][NextSnap]_vars

(***************************************************************************)
(* Properties                                                              *)
(***************************************************************************)
\* how many times x occurs in the sequence s
Occ(x, s) == Cardinality({i \in DOMAIN s : s[i] = x})

\* the pitch calls, as the documentation of the class lists them
FoulCalls == {"FoulBall", "FoulBallFieldable", "FoulBallNotFieldable"}
ListedCalls ==
    FoulCalls \cup {"InPlay", "StrikeSwinging", "StrikeCalled", "BallCalled",
                    "HitByPitch", "Undefined"}

\* pitch holds the call c
HasCall(pitch, c) ==
    /\ "pitch_call" \in DOMAIN pitch
    /\ pitch["pitch_call"].t = "str"
    /\ pitch["pitch_call"].s = c

\* pitch_call is missing or is a value of neither table
Malformed(pitch) == \A c \in ListedCalls : ~HasCall(pitch, c)

\* the calls that raise the counter key
CallsOf(key) ==
    CASE key = "fouls_found" -> FoulCalls
      [] key = "in_play_found" -> {"InPlay"}
      [] key = "contact_events_found" -> FoulCalls \cup {"InPlay"}
      [] key = "whiffs_found" -> {"StrikeSwinging"}
      [] key = "called_strikes_found" -> {"StrikeCalled"}
      [] key = "balls_found" -> {"BallCalled"}
      [] key = "hit_by_pitch_found" -> {"HitByPitch"}
      [] key = "undefined_found" -> {"Undefined"}
      [] key = "non_contact_events_found" ->
            {"StrikeSwinging", "StrikeCalled", "BallCalled", "HitByPitch", "Undefined"}
      [] OTHER -> {}

\* by how much one pass over P raises the counter key
Raise(key, P) ==
    CASE key = "total_pitches_processed" -> Len(P)
      [] key = "unknown_found" -> Cardinality({i \in DOMAIN P : Malformed(P[i])})
      [] OTHER -> Cardinality({i \in DOMAIN P : \E c \in CallsOf(key) : HasCall(P[i], c)})

----------------------------------------------------------------------------
\* C1: the three top-level buckets categorize_pitches returns partition the
\* input: their lengths sum to len(P), and every pitch occurs in them together
\* exactly as often as in P.
C1_BucketsPartitionInput ==
    lastOp = "categorize_pitches" =>
        LET R == ret.v IN
        /\ Len(R.contact.all) + Len(R.non_contact.all) + Len(R.unknown) = Len(pitches)
        /\ \A i \in DOMAIN pitches :
              Occ(pitches[i], R.contact.all) + Occ(pitches[i], R.non_contact.all)
                 + Occ(pitches[i], R.unknown) = Occ(pitches[i], pitches)

\* a list of three pitches went one into each bucket
C1_Witness ==
    /\ lastOp = "categorize_pitches"
    /\ Len(pitches) = 3
    /\ Len(ret.v.contact.all) = 1
    /\ Len(ret.v.non_contact.all) = 1
    /\ Len(ret.v.unknown) = 1

\* C2: total_pitches_processed is the sum of the lengths of the lists passed to
\* categorize_pitches since the last reset_stats (or since construction).
C2_TotalIsSumOfLengths == Counters["total_pitches_processed"] = processed

\* several calls have added up since the instance was made or reset
C2_Witness ==
    /\ lastOp = "categorize_pitches"
    /\ Len(pitches) = 1
    /\ processed = 3
    /\ Counters["total_pitches_processed"] = 3

\* C3 as stated: get_stats() right after reset_stats() returns thirteen counters,
\* every one of them 0.
C3_ThirteenCountersZero ==
    [][(lastOp = "reset_stats" /\ lastOp' = "get_stats") =>
          /\ Cardinality(DOMAIN heap'[ret'.id]) = 13
          /\ \A k \in DOMAIN heap'[ret'.id] : heap'[ret'.id][k] = 0]_vars

\* C3, amended: get_stats() right after reset_stats() returns the complete set of
\* eleven counters, every one of them 0: the counters of a fresh ContactFilter.
C3_ElevenCountersZero ==
    [][(lastOp = "reset_stats" /\ lastOp' = "get_stats") =>
          /\ Cardinality(DOMAIN heap'[ret'.id]) = 11
          /\ \A k \in DOMAIN heap'[ret'.id] : heap'[ret'.id][k] = 0
          /\ heap'[ret'.id] = ZeroStats]_vars

\* get_stats returned zeros although pitches had been processed before
C3_Witness ==
    /\ lastOp = "get_stats"
    /\ pitches # <<>>
    /\ processed = 0
    /\ \A k \in DOMAIN heap[ret.id] : heap[ret.id][k] = 0

\* C4: a snapshot get_stats returned is independent of the counters: the caller
\* changing, adding or deleting an entry of it leaves the counters as they were,
\* and categorize_pitches and reset_stats leave the snapshots as they were.
C4_SnapshotIndependent ==
    [][/\ lastOp' \in {"caller_set", "caller_del"} => heap'[stats'] = heap[stats]
       /\ (lastOp' \in {"categorize_pitches", "reset_stats"} /\ snaps' = snaps) =>
             \A i \in DOMAIN snaps : heap'[snaps[i]] = heap[snaps[i]]]_vars

\* a snapshot the caller changed, and counters that moved on after it
C4_Witness ==
    /\ lastOp = "categorize_pitches"
    /\ Len(snaps) = 1
    /\ "extra" \in DOMAIN heap[snaps[1]]
    /\ "total_pitches_processed" \notin DOMAIN heap[snaps[1]]
    /\ Counters["total_pitches_processed"] = 2

----------------------------------------------------------------------------
\* the plate appearance of a pitch: (inning, pa_of_inning), 0 for a missing field
GroupOf(pitch) ==
    <<Get(pitch, "inning", PyInt(0)).n, Get(pitch, "pa_of_inning", PyInt(0)).n>>

Groups(P) == {GroupOf(P[i]) : i \in DOMAIN P}

\* the plate appearance g of P holds a pitch with a contact call
GroupHasContact(P, g) ==
    \E i \in DOMAIN P :
        /\ GroupOf(P[i]) = g
        /\ \E c \in FoulCalls \cup {"InPlay"} : HasCall(P[i], c)

InPlayWithSpeed(P, i) ==
    /\ HasCall(P[i], "InPlay")
    /\ "exit_speed" \in DOMAIN P[i]
    /\ P[i]["exit_speed"].t = "int"
    /\ P[i]["exit_speed"].n # 0

SpeedOf(P, i) == P[i]["exit_speed"].n

\* C7: with at least one contact pitch, weak_contact counts the InPlay pitches
\* with a present, truthy exit_speed below 70 and hard_contact those with one of
\* 95 or more; their sum is at most in_play.
C7_WeakAndHardContact ==
    (lastOp = "get_contact_summary"
        /\ \E i \in DOMAIN pitches : \E c \in FoulCalls \cup {"InPlay"} : HasCall(pitches[i], c))
    =>  /\ ret.v.weak_contact
              = Cardinality({i \in DOMAIN pitches :
                                InPlayWithSpeed(pitches, i) /\ SpeedOf(pitches, i) < 70})
        /\ ret.v.hard_contact
              = Cardinality({i \in DOMAIN pitches :
                                InPlayWithSpeed(pitches, i) /\ SpeedOf(pitches, i) >= 95})
        /\ ret.v.weak_contact + ret.v.hard_contact <= ret.v.in_play

\* an InPlay pitch at 95, one at 70 and a foul at 100: one hard contact, no weak one
C7_Witness ==
    /\ lastOp = "get_contact_summary"
    /\ \E i \in DOMAIN pitches : InPlayWithSpeed(pitches, i) /\ SpeedOf(pitches, i) = 95
    /\ \E i \in DOMAIN pitches : InPlayWithSpeed(pitches, i) /\ SpeedOf(pitches, i) = 70
    /\ \E i \in DOMAIN pitches :
          HasCall(pitches[i], "FoulBall") /\ "exit_speed" \in DOMAIN pitches[i]
    /\ ret.v.hard_contact = 1
    /\ ret.v.weak_contact = 0
    /\ ret.v.in_play = 2

ContactRates == {"contact_rate", "foul_rate", "in_play_rate"}
NonContactRates ==
    {"whiff_rate", "called_strike_rate", "ball_rate", "hit_by_pitch_rate",
     "swing_rate", "whiff_per_swing"}

\* the rates of the summary s named in names are within 0 .. 100 percent, and 0
\* for an empty pitch list (rates are in tenths of a percent)
RatesOk(s, names) ==
    \A f \in names :
        /\ s[f] \in 0..1000
        /\ pitches = <<>> => s[f] = 0

\* C8: every rate of get_contact_summary and get_non_contact_summary, alone or
\* inside get_complete_summary, is within [0, 100]; all are 0 for an empty list
\* and whiff_per_swing is 0 when there is no swing.
C8_RatesWithinBounds ==
    /\ lastOp = "get_contact_summary" => RatesOk(ret.v, ContactRates)
    /\ lastOp = "get_non_contact_summary" =>
          /\ RatesOk(ret.v, NonContactRates)
          /\ ret.v.swings = 0 => ret.v.whiff_per_swing = 0
    /\ lastOp = "get_complete_summary" =>
          /\ RatesOk(ret.v.contact, ContactRates)
          /\ RatesOk(ret.v.non_contact, NonContactRates)
          /\ ret.v.non_contact.swings = 0 => ret.v.non_contact.whiff_per_swing = 0
    /\ lastOp = "print_summary" =>
          /\ RatesOk(ret.printed.contact, ContactRates)
          /\ RatesOk(ret.printed.non_contact, NonContactRates)

\* three pitches, two of them balls and none swung at: 66.7 % balls, no swing
C8_Witness ==
    /\ lastOp = "get_non_contact_summary"
    /\ Len(pitches) = 3
    /\ ret.v.swings = 0
    /\ ret.v.whiff_per_swing = 0
    /\ ret.v.ball_rate = 667

\* the counters after so many passes of categorize_pitches over P
AfterPasses(before, P, passes) ==
    [k \in StatKeys |-> before[k] + passes * Raise(k, P)]

\* C9: get_contact_summary and get_non_contact_summary advance the counters by
\* one pass of categorize_pitches over their argument, get_complete_summary and
\* print_summary by two.
C9_SummariesAdvanceCounters ==
    [][/\ lastOp' \in {"get_contact_summary", "get_non_contact_summary"} =>
             heap'[stats'] = AfterPasses(heap[stats], pitches', 1)
       /\ lastOp' \in {"get_complete_summary", "print_summary"} =>
             heap'[stats'] = AfterPasses(heap[stats], pitches', 2)]_vars

\* one get_complete_summary of one InPlay pitch on counters that already held one
C9_Witness ==
    /\ lastOp = "get_complete_summary"
    /\ Len(pitches) = 1
    /\ HasCall(pitches[1], "InPlay")
    /\ Counters["total_pitches_processed"] = 3
    /\ Counters["in_play_found"] = 2
    /\ Counters["unknown_found"] = 1

\* C10: the totals of the counters are the sums of their parts.
C10_CounterSums ==
    LET c == Counters IN
    /\ c["contact_events_found"] = c["fouls_found"] + c["in_play_found"]
    /\ c["non_contact_events_found"]
          = c["whiffs_found"] + c["called_strikes_found"] + c["balls_found"]
            + c["hit_by_pitch_found"] + c["undefined_found"]
    /\ c["total_pitches_processed"]
          = c["contact_events_found"] + c["non_contact_events_found"] + c["unknown_found"]

\* counters that hold a contact, a non-contact and an unknown pitch
C10_Witness ==
    /\ Counters["fouls_found"] = 1
    /\ Counters["undefined_found"] = 1
    /\ Counters["unknown_found"] = 1
    /\ Counters["total_pitches_processed"] = 3

=============================================================================
